---------------------------- MODULE Spec2Model ----------------------------
(***************************************************************************)
(* Model of the four MCP example servers of Intro_to_MCP_Servers_FreeCodeCamp: *)
(*   01_fastmcp_calculator.py      FastMCP calculator over stdio            *)
(*   02_fastapi_mcp_calculator.py  FastAPI calculator exposed through MCP   *)
(*   03_fastmcp_calculatorV2.py    FastMCP calculator over HTTP             *)
(*   04_feed_mcp.py                FreeCodeCamp feed searcher               *)
(*                                                                         *)
(* One behaviour is one server process serving tool invocations one after  *)
(* the other.  The tool bodies are translated from the source files; the   *)
(* framework around them (tool lookup, argument validation, turning a      *)
(* raised exception into an error reply) is not part of the repository and *)
(* is modelled from the specification's description of the dispatcher.     *)
(*                                                                         *)
(* Spec        one process, invocations one after the other                *)
(* SpecSparse  the same over feeds whose entries lack fields               *)
(* SpecRepeat  the feed server while the feed documents change             *)
(* SpecConc    invocations in progress at the same time                    *)
(* SpecStart   the start of a process: registrations, then dispatching     *)
(*                                                                         *)
(* Text is a sequence of characters, so that str.lower() and the `in`      *)
(* substring test are computed rather than assumed.  Numbers are integers  *)
(* and a quotient is an exact fraction (Python floats are not modelled).   *)
(***************************************************************************)
EXTENDS Integers, Sequences, FiniteSets, TLC

(***************************************************************************)
(* Bounds of the model.                                                    *)
(***************************************************************************)
MaxFeedLen == 3     \* entries in a fetched feed
MaxK == 2           \* explicit max_results range is -1 .. MaxK
MaxNum == 1         \* arithmetic arguments range over -MaxNum .. MaxNum

(***************************************************************************)
(* Text.                                                                   *)
(*                                                                         *)
(* The alphabet holds a cased ASCII pair a/A, b/B and the Greek sigma:     *)
(* SIGMA is the capital, sigma the small letter and fsigma the small final *)
(* form.  None of the characters is case-ignorable.                        *)
(***************************************************************************)
Chars == {"a", "A", "b", "B", "sigma", "SIGMA", "fsigma"}

IsCased(c) == c \in Chars

\* The simple lower-case mapping of one character.
LowerChar(c) ==
    CASE c = "A" -> "a"
      [] c = "B" -> "b"
      [] c = "SIGMA" -> "sigma"
      [] OTHER -> c

\* Final_Sigma context of position i of s: a cased character right before
\* it and no cased character right after it.
FinalSigma(s, i) ==
    /\ i > 1
    /\ IsCased(s[i - 1])
    /\ ~(i < Len(s) /\ IsCased(s[i + 1]))

\* str.lower(): character-wise, except that a capital sigma in Final_Sigma
\* context becomes the final small sigma.
Lower(s) ==
    [i \in 1..Len(s) |->
        IF s[i] = "SIGMA" /\ FinalSigma(s, i) THEN "fsigma" ELSE LowerChar(s[i])]

\* Variant of the containment test in which the empty text is in no text.
Contains_nonempty(hay, needle) ==
    /\ needle # <<>>
    /\ \E i \in 0..(Len(hay) - Len(needle)) :
            SubSeq(hay, i + 1, i + Len(needle)) = needle

\* The Python test `needle in hay` on strings.
Contains(hay, needle) ==
    \E i \in 0..(Len(hay) - Len(needle)) :
        SubSeq(hay, i + 1, i + Len(needle)) = needle

(***************************************************************************)
(* Feed entries.  An entry is a mapping from some of the keys title,       *)
(* description, link to text; entry.get(key, "") reads it.                 *)
(***************************************************************************)
\* Variant of the read whose default is a placeholder text, not "".
Get_placeholder(entry, key) == IF key \in DOMAIN entry THEN entry[key] ELSE <<"b">>

Get(entry, key) == IF key \in DOMAIN entry THEN entry[key] ELSE <<>>

EntryAb == [title |-> <<"A", "b">>, description |-> <<>>, link |-> <<"a">>]
EntryDesc == [title |-> <<"b">>, description |-> <<"a", "B">>, link |-> <<"b">>]
EntrySigma == [title |-> <<"A", "SIGMA", "a">>, description |-> <<"b">>, link |-> <<"a", "a">>]
EntryNoDesc == [title |-> <<"B", "a">>, link |-> <<"b", "b">>]

EntrySet == {EntryAb, EntryDesc, EntrySigma, EntryNoDesc}

SeqsUpTo(S, n) == UNION {[1..m -> S] : m \in 0..n}

Feeds == SeqsUpTo(EntrySet, MaxFeedLen)

\* Entries that lack a title, a link, a description, or all but the link.
EntryNoTitle == [description |-> <<"a", "B">>, link |-> <<"b">>]
EntryNoLink == [title |-> <<"A", "b">>, description |-> <<>>]
EntryLinkOnly == [link |-> <<"a">>]

SparseEntrySet == {EntryNoTitle, EntryNoLink, EntryLinkOnly, EntryNoDesc}

SparseFeeds == SeqsUpTo(SparseEntrySet, MaxFeedLen)

Queries ==
    { <<>>, <<"a">>, <<"A">>, <<"a", "b">>, <<"A", "B">>, <<"a", "B">>,
      <<"sigma">>, <<"a", "sigma">>, <<"a", "SIGMA">> }

NEWS_URL == "https://www.freecodecamp.org/news/rss/"
YOUTUBE_URL == "https://www.youtube.com/feeds/videos.xml?channel_id=UC8butISFwT-Wl7EV0hUK0BQ"
Urls == {NEWS_URL, YOUTUBE_URL}

(***************************************************************************)
(* Numbers.  A number is a fraction in lowest terms with a positive        *)
(* denominator; a * b, a + b, a - b of integers have denominator 1.        *)
(***************************************************************************)
Nums == (0 - MaxNum)..MaxNum

Abs(n) == IF n < 0 THEN 0 - n ELSE n

RECURSIVE Gcd(_, _)
Gcd(m, n) == IF n = 0 THEN m ELSE Gcd(n, m % n)

Num(n) == [num |-> n, den |-> 1]

\* a / b for b # 0.
Quot(a, b) ==
    LET g == Gcd(Abs(a), Abs(b))
        sgn == IF b < 0 THEN 0 - 1 ELSE 1
    IN  [num |-> (sgn * a) \div g, den |-> Abs(b) \div g]

(***************************************************************************)
(* What a handler does when called: it returns a value or raises.          *)
(***************************************************************************)
Return(v) == [tag |-> "return", value |-> v]
Raise(e) == [tag |-> "raise", exc |-> e]

(***************************************************************************)
(* 01_fastmcp_calculator.py                                                *)
(***************************************************************************)
multiply(a, b) == Return(Num(a * b))

add_numbers(x, y) == Return(Num(x + y))

subtract(a, b) == Return(Num(a - b))

\* Variant of divide that tests the dividend instead of the divisor.
divide_wrong_operand(a, b) ==
    IF a = 0 THEN Raise("ValueError") ELSE Return(IF b = 0 THEN Num(0) ELSE Quot(a, b))

divide(a, b) ==
    IF b = 0 THEN Raise("ValueError") ELSE Return(Quot(a, b))

(***************************************************************************)
(* 03_fastmcp_calculatorV2.py                                              *)
(***************************************************************************)
multiply_v2(a, b) == Return(Num(a * b))

add_numbers_v2(x, y) == Return(Num(x + y))

subtract_v2(a, b) == Return(Num(a - b))

\* Variant of the HTTP divide that answers a zero divisor with a message
\* instead of raising.
divide_v2_soft(a, b) ==
    IF b = 0 THEN Return([error |-> "Cannot divide by zero."]) ELSE Return(Quot(a, b))

divide_v2(a, b) ==
    IF b = 0 THEN Raise("ValueError") ELSE Return(Quot(a, b))

(***************************************************************************)
(* 02_fastapi_mcp_calculator.py: every endpoint returns a dictionary.      *)
(***************************************************************************)
multiply_numbers(a, b) == Return([result |-> Num(a * b)])

add_numbers_api(a, b) == Return([result |-> Num(a + b)])

subtract_numbers(a, b) == Return([result |-> Num(a - b)])

\* Variant of the FastAPI divide that raises on a zero divisor, as the
\* FastMCP calculators do.
divide_numbers_raises(a, b) ==
    IF b = 0
    THEN Raise("ValueError")
    ELSE Return([result |-> Quot(a, b)])

divide_numbers(a, b) ==
    IF b = 0
    THEN Return([error |-> "Division by zero is not allowed."])
    ELSE Return([result |-> Quot(a, b)])

(***************************************************************************)
(* 04_feed_mcp.py: the pieces of the two search loops.                     *)
(***************************************************************************)
DefaultMaxResults == 3

\* Variants of the match tests: the news search looking at the title only,
\* and the video search comparing the whole title.
news_match_title_only(entry, query_lower) ==
    Contains(Lower(Get(entry, "title")), query_lower)

youtube_match_exact(entry, query_lower) ==
    Lower(Get(entry, "title")) = query_lower

\* fcc_news_search: query_lower in title.lower() or in description.lower()
news_match(entry, query_lower) ==
    \/ Contains(Lower(Get(entry, "title")), query_lower)
    \/ Contains(Lower(Get(entry, "description")), query_lower)

\* fcc_youtube_search: query_lower in title.lower()
youtube_match(entry, query_lower) ==
    Contains(Lower(Get(entry, "title")), query_lower)

EntryMatches(tool, entry, query_lower) ==
    IF tool = "fcc_news_search"
    THEN news_match(entry, query_lower)
    ELSE youtube_match(entry, query_lower)

\* The dictionary appended for a matching entry.
\* Variant that reports the lower-cased title used for the comparison.
ResultOf_lowered(entry) == [title |-> Lower(Get(entry, "title")), url |-> Get(entry, "link")]

ResultOf(entry) == [title |-> Get(entry, "title"), url |-> Get(entry, "link")]

\* Variants of the break test: never breaking, and breaking one entry late.
LoopBreak_never(results, max_results) == FALSE

LoopBreak_gt(results, max_results) == Len(results) > max_results

\* if len(results) >= max_results: break
LoopBreak(results, max_results) == Len(results) >= max_results

NewsSentinel == [message |-> "No results found"]
VideoSentinel == [message |-> "No videos found"]

\* Variant of the return: the results list as it is, also when empty.
news_return_raw(results) == results

\* return results or [{"message": ...}]
news_return(results) ==
    IF results # <<>> THEN results ELSE <<NewsSentinel>>

\* Variant of the return that always closes the list with the sentinel.
youtube_return_closing(results) == Append(results, VideoSentinel)

youtube_return(results) ==
    IF results # <<>> THEN results ELSE <<VideoSentinel>>

SearchReturn(tool, results) ==
    IF tool = "fcc_news_search" THEN news_return(results) ELSE youtube_return(results)

\* The whole loop over entries from position i on, as one function.
RECURSIVE ScanFrom(_, _, _, _, _, _)
ScanFrom(tool, ents, query_lower, max_results, i, results) ==
    IF i > Len(ents)
    THEN results
    ELSE LET r == IF EntryMatches(tool, ents[i], query_lower)
                  THEN Append(results, ResultOf(ents[i]))
                  ELSE results
         IN  IF LoopBreak(r, max_results)
             THEN r
             ELSE ScanFrom(tool, ents, query_lower, max_results, i + 1, r)

\* The list a search tool returns on the fetched entries ents.
fcc_search(tool, ents, query, max_results) ==
    SearchReturn(tool, ScanFrom(tool, ents, Lower(query), max_results, 1, <<>>))

fcc_secret_message == Return("Keep exploring! and happy coding!")

FeedUrl(tool) == IF tool = "fcc_news_search" THEN NEWS_URL ELSE YOUTUBE_URL

(***************************************************************************)
(* The tools each server registers: exposed name, handler, required        *)
(* parameters and the defaults of the optional ones.                       *)
(***************************************************************************)
NoDefaults == <<>>

Tool(n, h, req, defs) == [name |-> n, handler |-> h, required |-> req, defaults |-> defs]

\* Variant of 01 whose addition tool is registered under the function name.
Registry01_plain_name ==
    { Tool("multiply", "multiply", {"a", "b"}, NoDefaults),
      Tool("add_numbers", "add_numbers", {"x", "y"}, NoDefaults),
      Tool("subtract", "subtract", {"a", "b"}, NoDefaults),
      Tool("divide", "divide", {"a", "b"}, NoDefaults) }

Registry01 ==
    { Tool("multiply", "multiply", {"a", "b"}, NoDefaults),
      Tool("add", "add_numbers", {"x", "y"}, NoDefaults),
      Tool("subtract", "subtract", {"a", "b"}, NoDefaults),
      Tool("divide", "divide", {"a", "b"}, NoDefaults) }

Registry02 ==
    { Tool("multiply_numbers", "multiply_numbers", {"a", "b"}, NoDefaults),
      Tool("add_numbers", "add_numbers_api", {"a", "b"}, NoDefaults),
      Tool("subtract_numbers", "subtract_numbers", {"a", "b"}, NoDefaults),
      Tool("divide_numbers", "divide_numbers", {"a", "b"}, NoDefaults) }

Registry03 ==
    { Tool("multiply", "multiply_v2", {"a", "b"}, NoDefaults),
      Tool("add", "add_numbers_v2", {"x", "y"}, NoDefaults),
      Tool("subtract", "subtract_v2", {"a", "b"}, NoDefaults),
      Tool("divide", "divide_v2", {"a", "b"}, NoDefaults) }

\* Variant of the feed tools whose max_results has no default.
Registry04_no_default ==
    { Tool("fcc_news_search", "fcc_news_search", {"query", "max_results"}, NoDefaults),
      Tool("fcc_youtube_search", "fcc_youtube_search", {"query", "max_results"},
           NoDefaults),
      Tool("fcc_secret_message", "fcc_secret_message", {}, NoDefaults) }

Registry04 ==
    { Tool("fcc_news_search", "fcc_news_search", {"query"},
           [max_results |-> DefaultMaxResults]),
      Tool("fcc_youtube_search", "fcc_youtube_search", {"query"},
           [max_results |-> DefaultMaxResults]),
      Tool("fcc_secret_message", "fcc_secret_message", {}, NoDefaults) }

Servers == {"01", "02", "03", "04"}

\* The registrations each program makes while it is loaded, in file order.
Decorators01 ==
    << Tool("multiply", "multiply", {"a", "b"}, NoDefaults),
       Tool("add", "add_numbers", {"x", "y"}, NoDefaults),
       Tool("subtract", "subtract", {"a", "b"}, NoDefaults),
       Tool("divide", "divide", {"a", "b"}, NoDefaults) >>

Decorators02 ==
    << Tool("multiply_numbers", "multiply_numbers", {"a", "b"}, NoDefaults),
       Tool("add_numbers", "add_numbers_api", {"a", "b"}, NoDefaults),
       Tool("subtract_numbers", "subtract_numbers", {"a", "b"}, NoDefaults),
       Tool("divide_numbers", "divide_numbers", {"a", "b"}, NoDefaults) >>

Decorators03 ==
    << Tool("multiply", "multiply_v2", {"a", "b"}, NoDefaults),
       Tool("add", "add_numbers_v2", {"x", "y"}, NoDefaults),
       Tool("subtract", "subtract_v2", {"a", "b"}, NoDefaults),
       Tool("divide", "divide_v2", {"a", "b"}, NoDefaults) >>

Decorators04 ==
    << Tool("fcc_news_search", "fcc_news_search", {"query"},
            [max_results |-> DefaultMaxResults]),
       Tool("fcc_youtube_search", "fcc_youtube_search", {"query"},
            [max_results |-> DefaultMaxResults]),
       Tool("fcc_secret_message", "fcc_secret_message", {}, NoDefaults) >>

Decorators(s) ==
    CASE s = "01" -> Decorators01
      [] s = "02" -> Decorators02
      [] s = "03" -> Decorators03
      [] s = "04" -> Decorators04

Registry(s) ==
    CASE s = "01" -> Registry01
      [] s = "02" -> Registry02
      [] s = "03" -> Registry03
      [] s = "04" -> Registry04

ToolNames(s) == {d.name : d \in Registry(s)}

XYHandlers == {"add_numbers", "add_numbers_v2"}
ABHandlers ==
    {"multiply", "subtract", "divide", "multiply_v2", "subtract_v2", "divide_v2",
     "multiply_numbers", "add_numbers_api", "subtract_numbers", "divide_numbers"}
ArithHandlers == XYHandlers \cup ABHandlers
FeedHandlers == {"fcc_news_search", "fcc_youtube_search"}

\* The parameters of a handler in the order of its signature, with the
\* annotated types.
Params(h) ==
    IF h \in XYHandlers
    THEN <<[name |-> "x", type |-> "float"], [name |-> "y", type |-> "float"]>>
    ELSE IF h \in ABHandlers
    THEN <<[name |-> "a", type |-> "float"], [name |-> "b", type |-> "float"]>>
    ELSE IF h \in FeedHandlers
    THEN <<[name |-> "query", type |-> "str"], [name |-> "max_results", type |-> "int"]>>
    ELSE <<>>

\* The call of an arithmetic handler with its keyword arguments.
CallArith(h, kw) ==
    CASE h = "multiply" -> multiply(kw.a, kw.b)
      [] h = "add_numbers" -> add_numbers(kw.x, kw.y)
      [] h = "subtract" -> subtract(kw.a, kw.b)
      [] h = "divide" -> divide(kw.a, kw.b)
      [] h = "multiply_v2" -> multiply_v2(kw.a, kw.b)
      [] h = "add_numbers_v2" -> add_numbers_v2(kw.x, kw.y)
      [] h = "subtract_v2" -> subtract_v2(kw.a, kw.b)
      [] h = "divide_v2" -> divide_v2(kw.a, kw.b)
      [] h = "multiply_numbers" -> multiply_numbers(kw.a, kw.b)
      [] h = "add_numbers_api" -> add_numbers_api(kw.a, kw.b)
      [] h = "subtract_numbers" -> subtract_numbers(kw.a, kw.b)
      [] h = "divide_numbers" -> divide_numbers(kw.a, kw.b)

(***************************************************************************)
(* The dispatcher around the handlers, as the specification describes it:  *)
(* lookup, argument validation, binding of defaults, and the translation   *)
(* of what the handler did into an outcome.                                *)
(***************************************************************************)
Kinds == {"UnknownTool", "InvalidArguments", "DomainError", "FeedUnavailable"}

Success(v) == [status |-> "success", value |-> v]
Failure(k) == [status |-> "failure", kind |-> k]
Invalid(p) == [status |-> "failure", kind |-> "InvalidArguments", detail |-> p]

\* Argument values as they arrive: a number or a text.
JsonNumber(n) == [number |-> n]
JsonString(t) == [string |-> t]

\* The value can be converted to the declared type of the parameter.
Convertible(type, value) ==
    IF type = "str" THEN DOMAIN value = {"string"} ELSE DOMAIN value = {"number"}

\* The value converted to the type it is convertible to.
Coerced(value) ==
    IF DOMAIN value = {"string"} THEN value.string ELSE value.number
NoOutcome == [status |-> "none"]

Registered(reg, n) == \E d \in reg : d.name = n

\* Variant of the registration that replaces a descriptor of the same name.
register_replace(reg, d) ==
    [registry |-> {e \in reg : e.name # d.name} \cup {d}, result |-> "ok"]

\* register(descriptor): the registry afterwards and how the call ended.
register(reg, d) ==
    IF Registered(reg, d.name)
    THEN [registry |-> reg, result |-> "DuplicateToolError"]
    ELSE [registry |-> reg \cup {d}, result |-> "ok"]

\* Variant of the lookup that hands out a descriptor whatever its name.
Lookup_any(reg, n) == CHOOSE d \in reg : TRUE

Lookup(reg, n) == CHOOSE d \in reg : d.name = n

\* The parameter p of the schema is required and absent, or present with a
\* value that cannot be converted.
Offends(d, args, p) ==
    \/ p.name \in d.required /\ p.name \notin DOMAIN args
    \/ p.name \in DOMAIN args /\ ~Convertible(p.type, args[p.name])

ValidArgs(d, args) ==
    /\ d.required \subseteq DOMAIN args
    /\ DOMAIN args \subseteq (d.required \cup DOMAIN d.defaults)
    /\ \A i \in 1..Len(Params(d.handler)) : ~Offends(d, args, Params(d.handler)[i])

\* The first offending parameter of an invalid argument mapping: the first of
\* the schema that is missing or not convertible, else a key outside it.
FirstOffending(d, args) ==
    LET ps == Params(d.handler)
        bad == {i \in 1..Len(ps) : Offends(d, args, ps[i])}
    IN  IF bad # {}
        THEN ps[CHOOSE i \in bad : \A j \in bad : i <= j].name
        ELSE CHOOSE k \in DOMAIN args \ (d.required \cup DOMAIN d.defaults) : TRUE

\* The validated, type-coerced argument set, defaults filled in.
Bind(d, args) ==
    [p \in d.required \cup DOMAIN d.defaults |->
        IF p \in DOMAIN args THEN Coerced(args[p]) ELSE d.defaults[p]]

KindOf(exc) ==
    CASE exc = "ValueError" -> "DomainError"
      [] exc = "OSError" -> "FeedUnavailable"

\* Variant of the normalisation that lets a raised exception through.
Normalize_leaky(h) ==
    IF h.tag = "return" THEN Success(h.value) ELSE h

Normalize(h) ==
    IF h.tag = "return" THEN Success(h.value) ELSE Failure(KindOf(h.exc))

(***************************************************************************)
(* Requests a client may send.                                             *)
(***************************************************************************)
KSet == (0 - 1)..MaxK

\* The mapping with every value as a client sends it when it respects the
\* types: query as a text, everything else as a number.
WellTyped(args) ==
    [p \in DOMAIN args |->
        IF p = "query" THEN JsonString(args[p]) ELSE JsonNumber(args[p])]

ArithArgs ==
    {WellTyped(m) :
        m \in {[a |-> m, b |-> n] : m \in Nums, n \in Nums}
                \cup {[x |-> m, y |-> n] : m \in Nums, n \in Nums}
                \cup {[a |-> 1], [a |-> 1, b |-> 1, c |-> 1]}}
        \cup {[a |-> JsonNumber(1), b |-> JsonString(<<"a">>)],
              [a |-> JsonString(<<"a">>), b |-> JsonString(<<"a">>)],
              [y |-> JsonString(<<"b">>)]}

FeedArgs ==
    {WellTyped(m) :
        m \in {[query |-> q] : q \in Queries}
                \cup {[query |-> q, max_results |-> k] : q \in Queries, k \in KSet}
                \cup {[max_results |-> 1], [query |-> <<>>, limit |-> 1]}}
        \cup {[query |-> JsonNumber(1)],
              [query |-> JsonString(<<"a">>), max_results |-> JsonString(<<"a">>)],
              [max_results |-> JsonString(<<"a">>), limit |-> JsonNumber(1)]}

NoArgs == <<>>

RequestNames(s) == ToolNames(s) \cup {"add", "add_numbers", "no_such_tool"}

RequestArgs(n) ==
    IF n \in {"fcc_news_search", "fcc_youtube_search"} THEN FeedArgs
    ELSE IF n \in {"fcc_secret_message", "no_such_tool"} THEN {NoArgs, WellTyped([a |-> 1])}
    ELSE ArithArgs

(***************************************************************************)
(* State.                                                                  *)
(***************************************************************************)
VARIABLES
    server,       \* which of the four programs this process is
    feed,         \* what each feed URL currently serves
    pc,           \* idle, received, invoke, scan, return, done
    req,          \* the invocation request being served
    handler,      \* the handler the request resolved to
    kw,           \* the bound keyword arguments of the handler call
    fetch,        \* how feedparser.parse ended: none, ok, bozo, raised
    entries,      \* feed.entries
    query_lower,  \* query.lower()
    results,      \* the results list
    idx,          \* position of the loop in entries
    examined,     \* positions whose entry the loop body has looked at
    picked,       \* positions whose entry was appended, in order
    outcome,      \* the outcome of the dispatch
    fetches,      \* the fetches of this invocation: URL and entries delivered
    prev,         \* an earlier search call of this process, as it ended
    registry,     \* the tool registry of the process
    calls,        \* the invocations in progress at the same time, by number
    boot,         \* start of the process: registrations made, and the last one
    invoked       \* how many times this dispatch has entered the handler

vars ==
    <<server, feed, pc, req, handler, kw, fetch, entries, query_lower,
      results, idx, examined, picked, outcome, fetches, prev, registry, calls,
      boot, invoked>>

NoReq == [name |-> "", args |-> NoArgs]

NoCall == [tool |-> ""]

NoTool == Tool("", "", {}, NoDefaults)

\* The process is past its start; no registration is being looked at.
NoBoot == [next |-> 0, tried |-> NoTool, before |-> {}, result |-> "none"]

locals == <<fetch, entries, query_lower, results, idx, examined, picked, fetches, invoked>>

\* What a handler call leaves alone when it touches no local of a search.
scan_locals == <<fetch, entries, query_lower, results, idx, examined, picked, fetches>>

LocalsInit ==
    /\ fetch = "none"
    /\ entries = <<>>
    /\ query_lower = <<>>
    /\ results = <<>>
    /\ idx = 0
    /\ examined = {}
    /\ picked = <<>>
    /\ fetches = <<>>
    /\ invoked = 0

InitFeeds(s) ==
    IF s = "04"
    THEN {[u \in Urls |-> IF u = u0 THEN f ELSE <<>>] : u0 \in Urls, f \in Feeds}
    ELSE {[u \in Urls |-> <<>>]}

Init ==
    /\ server \in Servers
    /\ feed \in InitFeeds(server)
    /\ pc = "idle"
    /\ req = NoReq
    /\ handler = ""
    /\ kw = NoArgs
    /\ LocalsInit
    /\ outcome = NoOutcome
    /\ prev = NoCall
    /\ registry = Registry(server)
    /\ calls = <<>>
    /\ boot = NoBoot

\* The transport hands a request to the dispatcher.
Request(n, a) ==
    /\ pc = "idle"
    /\ req' = [name |-> n, args |-> a]
    /\ pc' = "received"
    /\ UNCHANGED <<server, feed, prev, registry, calls, boot, handler, kw, locals, outcome>>

\* Lookup and validation fail: the dispatch ends without a handler call.
DispatchReject ==
    /\ pc = "received"
    /\ \/ /\ ~Registered(registry, req.name)
          /\ outcome' = Failure("UnknownTool")
       \/ /\ Registered(registry, req.name)
          /\ ~ValidArgs(Lookup(registry, req.name), req.args)
          /\ outcome' = Invalid(FirstOffending(Lookup(registry, req.name), req.args))
    /\ pc' = "done"
    /\ UNCHANGED <<server, feed, prev, registry, calls, boot, req, handler, kw, locals>>

\* Lookup and validation succeed: the handler is about to be called.
DispatchAccept ==
    /\ pc = "received"
    /\ Registered(registry, req.name)
    /\ LET d == Lookup(registry, req.name)
       IN  /\ ValidArgs(d, req.args)
           /\ handler' = d.handler
           /\ kw' = Bind(d, req.args)
    /\ pc' = "invoke"
    /\ UNCHANGED <<server, feed, prev, registry, calls, boot, req, locals, outcome>>

\* Variant of the dispatcher that calls the handler a second time when the
\* first call failed.
AfterHandler_retry(o) ==
    IF o.status = "failure" /\ invoked = 0 THEN "invoke" ELSE "done"

\* Where the dispatch goes once the handler call has ended in the outcome o:
\* to its end, whatever the outcome.
AfterHandler(o) == "done"

\* An arithmetic tool runs.
InvokeArith ==
    /\ pc = "invoke"
    /\ handler \in ArithHandlers
    /\ invoked' = invoked + 1
    /\ outcome' = Normalize(CallArith(handler, kw))
    /\ pc' = AfterHandler(outcome')
    /\ UNCHANGED <<server, feed, prev, registry, calls, boot, req, handler, kw, scan_locals>>

\* fcc_secret_message runs.
InvokeSecret ==
    /\ pc = "invoke"
    /\ handler = "fcc_secret_message"
    /\ invoked' = invoked + 1
    /\ outcome' = Normalize(fcc_secret_message)
    /\ pc' = AfterHandler(outcome')
    /\ UNCHANGED <<server, feed, prev, registry, calls, boot, req, handler, kw, scan_locals>>

\* Variant of the fetch that hands out the document an earlier call of the
\* same tool fetched, when there is one.
feedparser_parse_cached(url) ==
    IF prev # NoCall /\ FeedUrl(prev.tool) = url THEN prev.doc ELSE feed[url]

\* feedparser.parse(url): the entries of the document the URL serves now.
feedparser_parse(url) == feed[url]

\* This invocation's fetches with one more, of url, that delivered ents.
Fetched(url, ents) == Append(fetches, [url |-> url, doc |-> ents])

\* Variant of the results list that is shared by all calls and still holds
\* what an earlier call collected.
InitialResults_shared ==
    IF prev = NoCall
    THEN <<>>
    ELSE SelectSeq(prev.value, LAMBDA x : DOMAIN x # {"message"})

\* results = []
InitialResults == <<>>

\* The start of a search tool up to its loop, with what feedparser.parse gave.
StartScan(ents, how) ==
    /\ fetch' = how
    /\ entries' = ents
    /\ query_lower' = Lower(kw.query)
    /\ results' = InitialResults
    /\ idx' = IF ents = <<>> THEN 0 ELSE 1
    /\ pc' = IF ents = <<>> THEN "return" ELSE "scan"
    /\ UNCHANGED <<server, feed, prev, registry, calls, boot, req, handler, kw,
                   examined, picked, outcome>>

\* feedparser.parse fetched and parsed the document.
FetchOk ==
    /\ pc = "invoke"
    /\ handler \in FeedHandlers
    /\ invoked' = invoked + 1
    /\ fetches' = Fetched(FeedUrl(handler), feed[FeedUrl(handler)])
    /\ StartScan(feedparser_parse(FeedUrl(handler)), "ok")

\* The fetch or the parse failed inside feedparser.parse, which records the
\* failure in the result (bozo) and returns the entries it got, none after a
\* network error.
FetchBozo ==
    /\ pc = "invoke"
    /\ handler \in FeedHandlers
    /\ LET parsed == feedparser_parse(FeedUrl(handler))
           served == feed[FeedUrl(handler)]
       IN  \E n \in 0..Len(parsed) :
               /\ invoked' = invoked + 1
               /\ fetches' = Fetched(FeedUrl(handler),
                                     SubSeq(served, 1, IF n <= Len(served)
                                                       THEN n ELSE Len(served)))
               /\ StartScan(SubSeq(parsed, 1, n), "bozo")

\* The fetch failed with an exception feedparser.parse does not catch.
FetchRaise ==
    /\ pc = "invoke"
    /\ handler \in FeedHandlers
    /\ invoked' = invoked + 1
    /\ fetch' = "raised"
    /\ fetches' = Fetched(FeedUrl(handler), <<>>)
    /\ outcome' = Normalize(Raise("OSError"))
    /\ pc' = AfterHandler(outcome')
    /\ UNCHANGED <<server, feed, prev, registry, calls, boot, req, handler, kw, entries, query_lower,
                   results, idx, examined, picked>>

\* One iteration of `for entry in feed.entries`.
ScanStep ==
    /\ pc = "scan"
    /\ LET entry == entries[idx]
           hit == EntryMatches(handler, entry, query_lower)
           r == IF hit THEN Append(results, ResultOf(entry)) ELSE results
       IN  /\ results' = r
           /\ examined' = examined \cup {idx}
           /\ picked' = IF hit THEN Append(picked, idx) ELSE picked
           /\ IF LoopBreak(r, kw.max_results) \/ idx = Len(entries)
              THEN pc' = "return" /\ idx' = idx
              ELSE pc' = "scan" /\ idx' = idx + 1
    /\ UNCHANGED <<server, feed, prev, registry, calls, boot, req, handler, kw,
                   fetch, entries, query_lower, outcome, fetches, invoked>>

\* Variant of the return that raises when nothing was found.
ReturnStep_raises ==
    /\ pc = "return"
    /\ outcome' = IF results = <<>>
                  THEN Normalize(Raise("ValueError"))
                  ELSE Normalize(Return(results))
    /\ pc' = "done"
    /\ UNCHANGED <<server, feed, prev, registry, calls, boot, req, handler, kw, locals>>

\* return results or [{"message": ...}]
ReturnStep ==
    /\ pc = "return"
    /\ outcome' = Normalize(Return(SearchReturn(handler, results)))
    /\ pc' = "done"
    /\ UNCHANGED <<server, feed, prev, registry, calls, boot, req, handler, kw, locals>>

\* The end of an invocation: its request, locals and outcome are gone.
Discard ==
    /\ pc = "done"
    /\ pc' = "idle"
    /\ req' = NoReq
    /\ handler' = ""
    /\ kw' = NoArgs
    /\ fetch' = "none"
    /\ entries' = <<>>
    /\ query_lower' = <<>>
    /\ results' = <<>>
    /\ idx' = 0
    /\ examined' = {}
    /\ picked' = <<>>
    /\ fetches' = <<>>
    /\ invoked' = 0
    /\ outcome' = NoOutcome

\* The transport serializes the outcome; request and outcome are discarded.
Deliver ==
    /\ Discard
    /\ UNCHANGED <<server, feed, prev, registry, calls, boot>>

Next ==
    \/ \E n \in RequestNames(server) : \E a \in RequestArgs(n) : Request(n, a)
    \/ DispatchReject
    \/ DispatchAccept
    \/ InvokeArith
    \/ InvokeSecret
    \/ FetchOk
    \/ FetchBozo
    \/ FetchRaise
    \/ ScanStep
    \/ ReturnStep
    \/ Deliver

Spec == Init /\ [][Next]_vars

\* The same program against feeds whose entries lack fields.
InitSparse ==
    /\ server \in Servers
    /\ feed \in IF server = "04"
               THEN {[u \in Urls |-> IF u = u0 THEN f ELSE <<>>] :
                        u0 \in Urls, f \in SparseFeeds}
               ELSE {[u \in Urls |-> <<>>]}
    /\ pc = "idle"
    /\ req = NoReq
    /\ handler = ""
    /\ kw = NoArgs
    /\ LocalsInit
    /\ outcome = NoOutcome
    /\ prev = NoCall
    /\ registry = Registry(server)
    /\ calls = <<>>
    /\ boot = NoBoot

SpecSparse == InitSparse /\ [][Next]_vars

(***************************************************************************)
(* The start of a process: the registry is empty, the registrations of the *)
(* program are made in file order, then the server runs and dispatches.    *)
(* A registration under a name already present may be attempted in between.*)
(***************************************************************************)
StartArgs(n) ==
    IF n \in FeedHandlers THEN {WellTyped([query |-> <<"a">>])}
    ELSE IF n \in {"fcc_secret_message", "no_such_tool"} THEN {NoArgs}
    ELSE {WellTyped([a |-> 1, b |-> 1]), WellTyped([x |-> 1, y |-> 1])}

\* Descriptors that take the name of a tool of the program for another handler.
Rivals(s) == {Tool(n, "other_handler", {}, NoDefaults) : n \in ToolNames(s)}

StartFeed == [u \in Urls |-> <<EntryAb, EntryDesc>>]

InitStart ==
    /\ server \in Servers
    /\ feed = StartFeed
    /\ pc = "idle"
    /\ req = NoReq
    /\ handler = ""
    /\ kw = NoArgs
    /\ LocalsInit
    /\ outcome = NoOutcome
    /\ prev = NoCall
    /\ registry = {}
    /\ calls = <<>>
    /\ boot = [next |-> 1, tried |-> NoTool, before |-> {}, result |-> "none"]

Loading == boot.next \in 1..Len(Decorators(server))

Loaded == boot.next = Len(Decorators(server)) + 1

Running == boot.next = Len(Decorators(server)) + 2

StartFrame ==
    UNCHANGED <<server, feed, pc, req, handler, kw, locals, outcome, prev, calls>>

\* The next @mcp.tool() / @app.post() of the file.
RegisterNext ==
    /\ Loading
    /\ LET d == Decorators(server)[boot.next]
           r == register(registry, d)
       IN  /\ registry' = r.registry
           /\ boot' = [next |-> boot.next + 1, tried |-> d, before |-> registry,
                       result |-> r.result]
    /\ StartFrame

\* A registration under the name of a tool that is already registered.
RegisterRival(d) ==
    /\ Loading \/ Loaded
    /\ Registered(registry, d.name)
    /\ LET r == register(registry, d)
       IN  /\ registry' = r.registry
           /\ boot' = [boot EXCEPT !.tried = d, !.before = registry,
                                   !.result = r.result]
    /\ StartFrame

\* mcp.run(): from here on the registry is only read.
Run ==
    /\ Loaded
    /\ boot' = [boot EXCEPT !.next = boot.next + 1]
    /\ UNCHANGED registry
    /\ StartFrame

NextStart ==
    \/ RegisterNext
    \/ \E d \in Rivals(server) : RegisterRival(d)
    \/ Run
    \/ Running /\ \E n \in RequestNames(server) : \E a \in StartArgs(n) : Request(n, a)
    \/ DispatchReject
    \/ DispatchAccept
    \/ InvokeArith
    \/ InvokeSecret
    \/ FetchOk
    \/ FetchBozo
    \/ FetchRaise
    \/ ScanStep
    \/ ReturnStep
    \/ Deliver

SpecStart == InitStart /\ [][NextStart]_vars

(***************************************************************************)
(* The feed server over time: searches are repeated while the documents    *)
(* behind the two URLs change.  prev remembers one earlier search call.    *)
(***************************************************************************)
MaxDocLen == 1

Docs == SeqsUpTo({EntryAb, EntryDesc}, MaxDocLen)

RepeatArgs ==
    {WellTyped([query |-> q]) : q \in {<<"a">>, <<"b">>}}
        \cup {WellTyped([query |-> <<"a">>, max_results |-> 1])}

InitRepeat ==
    /\ server = "04"
    /\ feed \in [Urls -> Docs]
    /\ pc = "idle"
    /\ req = NoReq
    /\ handler = ""
    /\ kw = NoArgs
    /\ LocalsInit
    /\ outcome = NoOutcome
    /\ prev = NoCall
    /\ registry = Registry(server)
    /\ calls = <<>>
    /\ boot = NoBoot

\* The site publishes: the URL u serves the document d from now on.
FeedChange(u, d) ==
    /\ feed[u] # d
    /\ feed' = [feed EXCEPT ![u] = d]
    /\ UNCHANGED <<server, prev, registry, calls, boot, pc, req, handler, kw, locals, outcome>>

\* The search call that has just returned, as an observer remembers it.
ThisCall ==
    [tool |-> handler, query |-> kw.query, max_results |-> kw.max_results,
     doc |-> fetches[1].doc, value |-> outcome.value]

\* Deliver, with the call remembered for a later comparison.
DeliverNoted ==
    /\ handler \in FeedHandlers
    /\ outcome.status = "success"
    /\ Discard
    /\ prev' = ThisCall
    /\ UNCHANGED <<server, feed, registry, calls, boot>>

NextRepeat ==
    \/ \E n \in FeedHandlers : \E a \in RepeatArgs : Request(n, a)
    \/ DispatchAccept
    \/ FetchOk
    \/ FetchBozo
    \/ FetchRaise
    \/ ScanStep
    \/ ReturnStep
    \/ Deliver
    \/ DeliverNoted
    \/ \E u \in Urls : \E d \in Docs : FeedChange(u, d)

SpecRepeat == InitRepeat /\ [][NextRepeat]_vars

(***************************************************************************)
(* Invocations in progress at the same time (the HTTP transport of 03, and *)
(* requests multiplexed on the pipe of 04).  Every invocation has its own  *)
(* request, handler frame and outcome; the steps of different invocations  *)
(* interleave statement by statement.                                      *)
(***************************************************************************)
NumCalls == 2

CallIds == 1..NumCalls

ConcServers == {"03", "04"}

ConcFeed ==
    [u \in Urls |-> IF u = NEWS_URL THEN <<EntryDesc, EntryAb>>
                                    ELSE <<EntryAb, EntryDesc>>]

ConcNames(s) == IF s = "04" THEN FeedHandlers ELSE ToolNames(s)

ConcArgs(s) ==
    IF s = "04"
    THEN {WellTyped([query |-> <<"a">>]),
          WellTyped([query |-> <<"b">>, max_results |-> 1]),
          WellTyped([max_results |-> 1])}
    ELSE {WellTyped([a |-> 1, b |-> 0]), WellTyped([x |-> 1, y |-> 1])}

IdleCall ==
    [pc |-> "idle", req |-> NoReq, handler |-> "", kw |-> NoArgs,
     fetch |-> "none", entries |-> <<>>, query_lower |-> <<>>,
     results |-> <<>>, idx |-> 0, outcome |-> NoOutcome]

InitConc ==
    /\ server \in ConcServers
    /\ feed = ConcFeed
    /\ pc = "idle"
    /\ req = NoReq
    /\ handler = ""
    /\ kw = NoArgs
    /\ LocalsInit
    /\ outcome = NoOutcome
    /\ prev = NoCall
    /\ registry = Registry(server)
    /\ calls = [t \in CallIds |-> IdleCall]
    /\ boot = NoBoot

\* What the steps of the concurrent invocations leave alone.
ConcFrame == UNCHANGED <<server, feed, pc, req, handler, kw, locals, outcome, prev>>

\* Variant in which the results list is not a local: every invocation uses
\* the list of the first one.
OwnResults_shared(t) == calls[1].results

\* The results list of invocation t: a local of its handler frame.
OwnResults(t) == calls[t].results

ConcRequest(t, n, a) ==
    /\ calls[t].pc = "idle"
    /\ calls' = [calls EXCEPT ![t] =
                    [IdleCall EXCEPT !.pc = "received",
                                     !.req = [name |-> n, args |-> a]]]
    /\ UNCHANGED <<registry, boot>>
    /\ ConcFrame

ConcDispatchReject(t) ==
    /\ calls[t].pc = "received"
    /\ \/ /\ ~Registered(registry, calls[t].req.name)
          /\ calls' = [calls EXCEPT ![t].outcome = Failure("UnknownTool"),
                                    ![t].pc = "done"]
       \/ /\ Registered(registry, calls[t].req.name)
          /\ ~ValidArgs(Lookup(registry, calls[t].req.name), calls[t].req.args)
          /\ calls' = [calls EXCEPT
                 ![t].outcome = Invalid(FirstOffending(Lookup(registry, calls[t].req.name),
                                                       calls[t].req.args)),
                 ![t].pc = "done"]
    /\ UNCHANGED <<registry, boot>>
    /\ ConcFrame

ConcDispatchAccept(t) ==
    /\ calls[t].pc = "received"
    /\ Registered(registry, calls[t].req.name)
    /\ LET d == Lookup(registry, calls[t].req.name)
       IN  /\ ValidArgs(d, calls[t].req.args)
           /\ calls' = [calls EXCEPT ![t].handler = d.handler,
                                     ![t].kw = Bind(d, calls[t].req.args),
                                     ![t].pc = "invoke"]
    /\ UNCHANGED <<registry, boot>>
    /\ ConcFrame

ConcInvokeArith(t) ==
    /\ calls[t].pc = "invoke"
    /\ calls[t].handler \in ArithHandlers
    /\ calls' = [calls EXCEPT
                    ![t].outcome = Normalize(CallArith(calls[t].handler, calls[t].kw)),
                    ![t].pc = "done"]
    /\ UNCHANGED <<registry, boot>>
    /\ ConcFrame

\* feedparser.parse up to the loop: the fetch delivered the first n entries
\* of the document (all of them when it went well).
ConcFetch(t, n) ==
    /\ calls[t].pc = "invoke"
    /\ calls[t].handler \in FeedHandlers
    /\ LET doc == feedparser_parse(FeedUrl(calls[t].handler))
           ents == SubSeq(doc, 1, n)
       IN  /\ n \in 0..Len(doc)
           /\ calls' = [calls EXCEPT
                  ![t].fetch = IF n = Len(doc) THEN "ok" ELSE "bozo",
                  ![t].entries = ents,
                  ![t].query_lower = Lower(calls[t].kw.query),
                  ![t].results = InitialResults,
                  ![t].idx = IF ents = <<>> THEN 0 ELSE 1,
                  ![t].pc = IF ents = <<>> THEN "return" ELSE "scan"]
    /\ UNCHANGED <<registry, boot>>
    /\ ConcFrame

ConcFetchRaise(t) ==
    /\ calls[t].pc = "invoke"
    /\ calls[t].handler \in FeedHandlers
    /\ calls' = [calls EXCEPT ![t].fetch = "raised",
                              ![t].outcome = Normalize(Raise("OSError")),
                              ![t].pc = "done"]
    /\ UNCHANGED <<registry, boot>>
    /\ ConcFrame

\* One iteration of the loop of invocation t.
ConcScanStep(t) ==
    /\ calls[t].pc = "scan"
    /\ LET c == calls[t]
           entry == c.entries[c.idx]
           hit == EntryMatches(c.handler, entry, c.query_lower)
           r == IF hit THEN Append(OwnResults(t), ResultOf(entry)) ELSE OwnResults(t)
           last == LoopBreak(r, c.kw.max_results) \/ c.idx = Len(c.entries)
       IN  calls' = [calls EXCEPT
                        ![t].results = r,
                        ![t].pc = IF last THEN "return" ELSE "scan",
                        ![t].idx = IF last THEN c.idx ELSE c.idx + 1]
    /\ UNCHANGED <<registry, boot>>
    /\ ConcFrame

ConcReturnStep(t) ==
    /\ calls[t].pc = "return"
    /\ calls' = [calls EXCEPT
                    ![t].outcome = Normalize(Return(SearchReturn(calls[t].handler,
                                                                OwnResults(t)))),
                    ![t].pc = "done"]
    /\ UNCHANGED <<registry, boot>>
    /\ ConcFrame

ConcDeliver(t) ==
    /\ calls[t].pc = "done"
    /\ calls' = [calls EXCEPT ![t] = IdleCall]
    /\ UNCHANGED <<registry, boot>>
    /\ ConcFrame

NextConc ==
    \E t \in CallIds :
        \/ \E n \in ConcNames(server) : \E a \in ConcArgs(server) : ConcRequest(t, n, a)
        \/ ConcDispatchReject(t)
        \/ ConcDispatchAccept(t)
        \/ ConcInvokeArith(t)
        \/ \E n \in 0..MaxFeedLen : ConcFetch(t, n)
        \/ ConcFetchRaise(t)
        \/ ConcScanStep(t)
        \/ ConcReturnStep(t)
        \/ ConcDeliver(t)

SpecConc == InitConc /\ [][NextConc]_vars

(***************************************************************************)
(* Properties.                                                             *)
(***************************************************************************)
Max(m, n) == IF m >= n THEN m ELSE n
Min(m, n) == IF m <= n THEN m ELSE n

Range(f) == {f[i] : i \in DOMAIN f}

\* A search tool has returned its list, which is the value of the outcome.
Returned ==
    /\ pc = "done"
    /\ handler \in FeedHandlers
    /\ outcome.status = "success"

IsSentinel(x) == DOMAIN x = {"message"}

IsSentinelList(l) == Len(l) = 1 /\ IsSentinel(l[1])

\* The fields a tool is said to search.
SearchableFields(tool) ==
    IF tool = "fcc_news_search" THEN {"title", "description"} ELSE {"title"}

\* The entry contains the lower-cased query in a searchable field.
EntryContains(tool, entry, query) ==
    \E f \in SearchableFields(tool) : Contains(Lower(Get(entry, f)), Lower(query))

\* The positions of the matching entries of a feed, in feed order.
RECURSIVE MatchPositions(_, _, _, _)
MatchPositions(tool, ents, query, i) ==
    IF i > Len(ents) THEN <<>>
    ELSE IF EntryContains(tool, ents[i], query)
         THEN <<i>> \o MatchPositions(tool, ents, query, i + 1)
         ELSE MatchPositions(tool, ents, query, i + 1)

\* The number of entries appended up to and including position i.
CountAfter(i) == Cardinality({p \in Range(picked) : p <= i})

\* C1. Cap law: the list a search tool returns has at most max(max_results, 1)
\* elements, for every fetched feed, query and max_results (also <= 0).
CapLaw ==
    Returned => Len(outcome.value) <= Max(kw.max_results, 1)

\* C1 witness: a scan with max_results = 2 that the cap cut short.
CapLawWitness ==
    /\ Returned
    /\ kw.max_results = 2
    /\ Len(outcome.value) = 2
    /\ Len(entries) = 3
    /\ examined = {1, 2}
    /\ EntryContains(handler, entries[3], kw.query)

\* C2. Empty-match law: the returned list is never empty, and if no fetched
\* entry contains the lower-cased query in the tool's searchable fields it is
\* exactly one sentinel element that carries only a message.
EmptyMatchLaw ==
    Returned =>
        /\ Len(outcome.value) >= 1
        /\ (\A i \in 1..Len(entries) : ~EntryContains(handler, entries[i], kw.query))
              => IsSentinelList(outcome.value)

\* C2 witness: a feed of three entries none of which matches, max_results 2.
EmptyMatchWitness ==
    /\ Returned
    /\ Len(entries) = 3
    /\ kw.max_results = 2
    /\ \A i \in 1..3 : ~EntryContains(handler, entries[i], kw.query)
    /\ outcome.value \in {<<NewsSentinel>>, <<VideoSentinel>>}

\* C3. With max_results <= 0 a search returns the one-element sentinel list
\* and examines no feed entry, whether or not entries match.
NonPositiveCapSkipsScan ==
    (handler \in FeedHandlers /\ kw.max_results <= 0) =>
        /\ examined = {}
        /\ Returned => IsSentinelList(outcome.value)

\* C4. For max_results k >= 1 and m matching entries the returned results
\* are exactly the first min(k, m) matching entries, in feed order.
FirstMatchesInOrder ==
    (Returned /\ kw.max_results >= 1) =>
        LET M == MatchPositions(handler, entries, kw.query, 1)
            n == Min(kw.max_results, Len(M))
            real == SelectSeq(outcome.value, LAMBDA x : ~IsSentinel(x))
        IN  /\ picked = SubSeq(M, 1, n)
            /\ real = [i \in 1..n |-> [title |-> Get(entries[M[i]], "title"),
                                       url |-> Get(entries[M[i]], "link")]]

\* C4 witness: max_results 2 and three entries of which the first and the
\* third match and the second does not.
FirstMatchesWitness ==
    /\ Returned
    /\ kw.max_results = 2
    /\ picked = <<1, 3>>
    /\ Len(outcome.value) = 2

\* C5. Short-circuit: no entry is examined, and none is returned, after an
\* entry at which the number of collected results had reached max_results;
\* the entries examined are a prefix of the feed.
ShortCircuit ==
    handler \in FeedHandlers =>
        /\ \A i \in examined : \A j \in examined :
                i < j => CountAfter(i) < kw.max_results
        /\ \A j \in examined : \A i \in 1..j : i \in examined
        /\ Range(picked) \subseteq examined
        /\ Returned => Len(outcome.value) = Max(Len(picked), 1)

\* C5 witness: the second entry brought the count to max_results = 1 and the
\* third entry, which matches too, was never examined.
ShortCircuitWitness ==
    /\ Returned
    /\ kw.max_results = 1
    /\ Len(entries) = 3
    /\ picked = <<2>>
    /\ examined = {1, 2}
    /\ EntryContains(handler, entries[3], kw.query)

\* C6. A feed fetch failure (network error or malformed document) during a
\* search yields a Failure outcome of kind FeedUnavailable, never a Success.
FetchFailureIsFeedUnavailable ==
    (pc = "done" /\ fetch \in {"bozo", "raised"}) =>
        outcome = Failure("FeedUnavailable")

DivideHandlers == {"divide", "divide_v2", "divide_numbers"}

\* v is the number a / b.
IsQuotient(v, a, b) ==
    /\ DOMAIN v = {"num", "den"}
    /\ v.den > 0
    /\ v.num * b = a * v.den

\* The number an arithmetic reply carries: the value itself, or the "result"
\* entry of a FastAPI reply.
NumericValue(v) == IF "result" \in DOMAIN v THEN v.result ELSE v

\* C7 as stated. In every calculator server divide with b # 0 succeeds with
\* a / b and with b = 0 yields a Failure outcome of kind DomainError.
DivideLawEveryServer ==
    (pc = "done" /\ handler \in DivideHandlers) =>
        IF kw.b # 0
        THEN /\ outcome.status = "success"
             /\ IsQuotient(NumericValue(outcome.value), kw.a, kw.b)
        ELSE outcome = Failure("DomainError")

\* C7 amended. In the FastMCP calculators (01, 03) divide with b # 0 succeeds
\* with a / b and with b = 0 yields Failure DomainError; in the FastAPI
\* calculator (02) divide_numbers with b # 0 succeeds with {"result": a / b}
\* and with b = 0 succeeds with a reply that holds only an "error" message.
\* No server produces a numeric value for b = 0.
DivideLaw ==
    (pc = "done" /\ handler \in DivideHandlers) =>
        IF handler = "divide_numbers"
        THEN /\ outcome.status = "success"
             /\ IF kw.b # 0
                THEN /\ DOMAIN outcome.value = {"result"}
                     /\ IsQuotient(outcome.value.result, kw.a, kw.b)
                ELSE DOMAIN outcome.value = {"error"}
        ELSE IF kw.b # 0
             THEN /\ outcome.status = "success"
                  /\ IsQuotient(outcome.value, kw.a, kw.b)
             ELSE outcome = Failure("DomainError")

\* C7 witness: divide(1, 0) on the stdio calculator ended as a DomainError.
DivideLawWitness ==
    /\ pc = "done"
    /\ server = "01"
    /\ handler = "divide"
    /\ kw.a = 1
    /\ kw.b = 0
    /\ outcome = Failure("DomainError")

WellFormedOutcome(o) ==
    \/ /\ DOMAIN o = {"status", "value"}
       /\ o.status = "success"
    \/ /\ DOMAIN o = {"status", "kind"}
       /\ o.status = "failure"
       /\ o.kind \in Kinds
    \/ /\ DOMAIN o = {"status", "kind", "detail"}
       /\ o.status = "failure"
       /\ o.kind = "InvalidArguments"

\* C8. Every dispatch ends with exactly one outcome, present exactly when the
\* dispatch is done, and it is Success{value} or Failure with a kind among
\* UnknownTool, InvalidArguments, DomainError, FeedUnavailable.
OutcomeNormalized ==
    /\ (pc = "done") <=> (outcome # NoOutcome)
    /\ pc = "done" => WellFormedOutcome(outcome)

\* C8 witness: an exception of the feed fetch ended as a Failure outcome.
OutcomeNormalizedWitness ==
    /\ pc = "done"
    /\ fetch = "raised"
    /\ WellFormedOutcome(outcome)
    /\ outcome.status = "failure"

\* The capital of a character.
UpperChar(c) ==
    CASE c = "a" -> "A"
      [] c = "b" -> "B"
      [] c \in {"sigma", "fsigma"} -> "SIGMA"
      [] OTHER -> c

\* Two texts differ at most in letter case: same length, and at each place
\* the same character or a character and its capital.
DiffOnlyInCase(s, t) ==
    /\ Len(s) = Len(t)
    /\ \A i \in 1..Len(s) :
          \/ s[i] = t[i]
          \/ s[i] = UpperChar(t[i])
          \/ t[i] = UpperChar(s[i])

\* The text in capitals.
UpperCased(s) == [i \in 1..Len(s) |-> UpperChar(s[i])]

\* C9. Case-insensitivity: queries that differ only in letter case return
\* identical results on the same feed and max_results, and the letter case
\* of a title or description does not affect whether the entry matches.
CaseInsensitive ==
    Returned =>
        /\ \A q2 \in Queries :
              DiffOnlyInCase(kw.query, q2) =>
                  outcome.value = fcc_search(handler, entries, q2, kw.max_results)
        /\ \A i \in 1..Len(entries) : \A f \in DOMAIN entries[i] \ {"link"} :
              EntryMatches(handler, entries[i], query_lower)
                  = EntryMatches(handler,
                                 [entries[i] EXCEPT ![f] = UpperCased(@)],
                                 query_lower)

\* C10. Per-tool searchable fields: the news search returns an entry when the
\* query is in its title or its description (and the cap is not reached
\* before it), the video search returns only entries whose title holds the
\* query; an entry matching by description alone is returned by the news
\* search and not by the video search.
PerToolFields ==
    Returned =>
        LET q == Lower(kw.query)
            inTitle(e) == Contains(Lower(Get(e, "title")), q)
            inDesc(e) == Contains(Lower(Get(e, "description")), q)
            before(i) == {j \in 1..(i - 1) : inTitle(entries[j]) \/ inDesc(entries[j])}
        IN  /\ handler = "fcc_youtube_search" =>
                  /\ \A i \in Range(picked) : inTitle(entries[i])
                  /\ \A x \in Range(outcome.value) :
                        IsSentinel(x) \/ Contains(Lower(x.title), q)
            /\ handler = "fcc_news_search" =>
                  \A i \in 1..Len(entries) :
                      /\ i \in Range(picked) =>
                            (inTitle(entries[i]) \/ inDesc(entries[i]))
                      /\ ( /\ inTitle(entries[i]) \/ inDesc(entries[i])
                           /\ kw.max_results >= 1
                           /\ Cardinality(before(i)) < kw.max_results )
                            => /\ i \in Range(picked)
                               /\ ResultOf(entries[i]) \in Range(outcome.value)

\* C10 witness: the news search returned an entry that matches by its
\* description alone, and the video search on the same entries finds nothing.
PerToolFieldsWitness ==
    /\ Returned
    /\ handler = "fcc_news_search"
    /\ \E i \in Range(picked) :
          /\ Contains(Lower(Get(entries[i], "description")), Lower(kw.query))
          /\ ~Contains(Lower(Get(entries[i], "title")), Lower(kw.query))
    /\ fcc_search("fcc_youtube_search", entries, kw.query, kw.max_results)
          = <<VideoSentinel>>

EntryFields == {"title", "description", "link"}

\* The entry with every absent field filled in as the empty text.
Pad(entry) == [f \in EntryFields |-> IF f \in DOMAIN entry THEN entry[f] ELSE <<>>]

PadAll(ents) == [i \in 1..Len(ents) |-> Pad(ents[i])]

\* C11. Missing-field tolerance: a search over entries that lack a title, a
\* description or a link does not fail, and returns what it returns on the
\* same entries with every absent field present and empty.
MissingFieldTolerance ==
    (pc = "done" /\ handler \in FeedHandlers /\ fetch # "raised") =>
        /\ outcome.status = "success"
        /\ outcome.value = fcc_search(handler, PadAll(entries), kw.query, kw.max_results)

\* C11 witness: the news search returned an entry without a title, found by
\* its description, and an entry without a link.
MissingFieldWitness ==
    /\ Returned
    /\ handler = "fcc_news_search"
    /\ entries = <<EntryNoTitle, EntryLinkOnly, EntryNoLink>>
    /\ kw.query = <<"a", "B">>
    /\ outcome.value = << [title |-> <<>>, url |-> <<"b">>],
                          [title |-> <<"A", "b">>, url |-> <<>>] >>

\* C12. A search in whose fetched entries nothing matches ends in a Success
\* outcome that carries the tool's one-element sentinel list, never in a
\* Failure.
NoMatchIsSuccess ==
    ( /\ pc = "done"
      /\ handler \in FeedHandlers
      /\ fetch # "raised"
      /\ \A i \in 1..Len(entries) : ~EntryContains(handler, entries[i], kw.query) )
    => outcome = Success(<<IF handler = "fcc_news_search"
                           THEN NewsSentinel ELSE VideoSentinel>>)

\* C12 witness: the video search went through two fetched entries whose
\* titles do not contain the query.
NoMatchWitness ==
    /\ pc = "done"
    /\ handler = "fcc_youtube_search"
    /\ fetch = "ok"
    /\ Len(entries) = 2
    /\ examined = {1, 2}
    /\ picked = <<>>
    /\ outcome.status = "success"
    /\ outcome.value = <<VideoSentinel>>

\* C13. The empty query matches every entry: with max_results k >= 1 a
\* search for "" over n fetched entries returns the first min(k, n) entries
\* as {title, url} pairs, and the sentinel list only when n = 0.
EmptyQueryMatchesAll ==
    (Returned /\ kw.query = <<>> /\ kw.max_results >= 1) =>
        LET n == Len(entries)
            m == Min(kw.max_results, n)
        IN  IF n = 0
            THEN outcome.value \in {<<NewsSentinel>>, <<VideoSentinel>>}
            ELSE outcome.value =
                    [i \in 1..m |-> [title |-> Get(entries[i], "title"),
                                     url |-> Get(entries[i], "link")]]

\* C13 witness: the empty query with max_results 2 on three fetched entries,
\* the second of which has an empty description; the first two came back.
EmptyQueryWitness ==
    /\ Returned
    /\ kw.query = <<>>
    /\ kw.max_results = 2
    /\ Len(entries) = 3
    /\ entries[2] = EntryAb
    /\ picked = <<1, 2>>
    /\ Len(outcome.value) = 2

\* C14. Search determinism: two invocations of the same search tool with
\* the same query and max_results that fetched the same sequence of entries
\* return the same list, whatever was invoked before or between them and
\* whatever the feeds served in the meantime.
SearchDeterminism ==
    ( /\ Returned
      /\ prev # NoCall
      /\ prev.tool = handler
      /\ prev.query = kw.query
      /\ prev.max_results = kw.max_results
      /\ prev.doc = fetches[1].doc )
    => outcome.value = prev.value

\* C14 witness: a search that found an entry is repeated on the same
\* fetched entries and returns the same one-result list.
SearchDeterminismWitness ==
    /\ Returned
    /\ prev # NoCall
    /\ prev.tool = handler
    /\ prev.query = kw.query
    /\ prev.max_results = kw.max_results
    /\ prev.doc = fetches[1].doc
    /\ Len(fetches[1].doc) = 1
    /\ outcome.value = <<ResultOf(entries[1])>>
    /\ prev.value = outcome.value

\* C16. Every invocation of a search tool makes exactly one fetch, of its own
\* feed URL, no other invocation makes any, and the returned list is computed
\* from the entries that fetch delivered alone, also after the feed changed:
\* nothing of an earlier call's snapshot comes back.
OneFetchPerCall ==
    /\ (handler \in FeedHandlers /\ pc \in {"scan", "return", "done"}) =>
            /\ Len(fetches) = 1
            /\ fetches[1].url = FeedUrl(handler)
    /\ (handler \notin FeedHandlers \/ pc \in {"idle", "received", "invoke"}) =>
            fetches = <<>>
    /\ Returned =>
            /\ outcome.value =
                   fcc_search(handler, fetches[1].doc, kw.query, kw.max_results)
            /\ \A i \in 1..Len(outcome.value) :
                   IsSentinel(outcome.value[i])
                   \/ \E j \in 1..Len(fetches[1].doc) :
                          outcome.value[i] = ResultOf(fetches[1].doc[j])

\* C16 witness: the same search as an earlier call, after the feed changed
\* to another entry: one fetch, and the result is the new entry, not the one
\* the earlier call returned.
OneFetchWitness ==
    /\ Returned
    /\ fetch = "ok"
    /\ prev # NoCall
    /\ prev.tool = handler
    /\ prev.query = kw.query
    /\ Len(prev.doc) = 1
    /\ Len(fetches) = 1
    /\ Len(fetches[1].doc) = 1
    /\ prev.doc # fetches[1].doc
    /\ prev.value = <<ResultOf(prev.doc[1])>>
    /\ outcome.value = <<ResultOf(fetches[1].doc[1])>>

\* The outcome the invocation c has when it runs alone: the dispatcher around
\* its handler, computed in one piece from its arguments and, for a search,
\* from the entries its fetch delivered.
Alone(c) ==
    IF c.handler = ""
    THEN IF Registered(Registry(server), c.req.name)
         THEN Invalid(FirstOffending(Lookup(Registry(server), c.req.name), c.req.args))
         ELSE Failure("UnknownTool")
    ELSE IF c.handler \in ArithHandlers
    THEN Normalize(CallArith(c.handler, c.kw))
    ELSE IF c.fetch = "raised"
    THEN Failure("FeedUnavailable")
    ELSE Success(fcc_search(c.handler, c.entries, c.kw.query, c.kw.max_results))

\* C15. Concurrent invocations are safe: in every interleaving of the steps
\* of simultaneous invocations each finished invocation has the outcome it
\* has when run alone on the same arguments and fetched entries, the results
\* list it holds is its own, and the registry is the one built at start.
ConcurrentSafe ==
    /\ registry = Registry(server)
    /\ \A t \in DOMAIN calls :
          /\ calls[t].pc = "done" => calls[t].outcome = Alone(calls[t])
          /\ calls[t].pc \in {"scan", "return"} =>
                \E n \in 0..Len(calls[t].entries) :
                    calls[t].results =
                        ScanFrom(calls[t].handler, SubSeq(calls[t].entries, 1, n),
                                 calls[t].query_lower, calls[t].kw.max_results, 1, <<>>)

\* C15 witness: two searches in progress at once, one finished with two
\* results while the other, of the other tool, is in the middle of its loop
\* holding one result of its own.
ConcurrentWitness ==
    /\ DOMAIN calls = CallIds
    /\ \E t \in CallIds : \E u \in CallIds :
          /\ t # u
          /\ calls[t].pc = "done"
          /\ calls[t].handler = "fcc_news_search"
          /\ calls[t].outcome.status = "success"
          /\ Len(calls[t].outcome.value) = 2
          /\ calls[u].pc = "scan"
          /\ calls[u].handler = "fcc_youtube_search"
          /\ calls[u].idx = 2
          /\ Len(calls[u].results) = 1

\* C17. A lookup of a name after the registration of a descriptor of that
\* name returns that descriptor, and the running server has exactly the
\* tools the program registered; a dispatch of a name that was never
\* registered ends in Failure UnknownTool with no handler invoked.
LookupLaw ==
    LET D == Decorators(server)
    IN  /\ \A i \in 1..Len(D) :
              i < boot.next =>
                  /\ Registered(registry, D[i].name)
                  /\ Lookup(registry, D[i].name) = D[i]
        /\ Running => registry = Registry(server)
        /\ ( /\ pc \in {"invoke", "scan", "return", "done"}
              /\ \A i \in 1..Len(D) : D[i].name # req.name )
            => /\ pc = "done"
               /\ outcome = Failure("UnknownTool")
               /\ handler = ""
               /\ fetches = <<>>

\* C17 witness: server 01 runs with its four tools, "add" resolves to the
\* descriptor of add_numbers, and a dispatch of the name add_numbers has
\* failed as unknown.
LookupWitness ==
    /\ server = "01"
    /\ Running
    /\ Lookup(registry, "add").handler = "add_numbers"
    /\ pc = "done"
    /\ req.name = "add_numbers"
    /\ outcome = Failure("UnknownTool")

\* C18. Tool names are unique within the registry in every reachable state:
\* a registration under a name already present fails with
\* DuplicateToolError and leaves the registry as it was, any other
\* registration adds its descriptor; the names a program registers are
\* pairwise different.
UniqueNames ==
    /\ \A d1 \in registry : \A d2 \in registry : d1.name = d2.name => d1 = d2
    /\ \A i \in 1..Len(Decorators(server)) : \A j \in 1..Len(Decorators(server)) :
          Decorators(server)[i].name = Decorators(server)[j].name => i = j
    /\ boot.result # "none" =>
          IF Registered(boot.before, boot.tried.name)
          THEN boot.result = "DuplicateToolError" /\ registry = boot.before
          ELSE boot.result = "ok" /\ registry = boot.before \cup {boot.tried}

\* C18 witness: with at least two tools registered, another handler was
\* registered under the name of one of them; the call failed and the
\* registry still maps the name to the first descriptor.
UniqueNamesWitness ==
    /\ Cardinality(registry) >= 2
    /\ boot.tried.handler = "other_handler"
    /\ boot.result = "DuplicateToolError"
    /\ registry = boot.before
    /\ Lookup(registry, boot.tried.name).handler # "other_handler"

\* C19. Argument validation: a dispatch of a registered tool whose arguments
\* lack a parameter that has no default, carry a value that cannot be
\* converted to the declared type, or hold a key outside the schema ends in
\* Failure InvalidArguments that names the first offending parameter, with
\* no handler invoked; otherwise the handler gets the converted values, and
\* a search called without max_results gets max_results = 3.
ArgumentValidation ==
    /\ (pc \in {"invoke", "scan", "return", "done"} /\ Registered(registry, req.name)) =>
          LET d == Lookup(registry, req.name)
              ps == Params(d.handler)
              missing(i) == /\ ps[i].name \notin DOMAIN req.args
                            /\ ps[i].name \notin DOMAIN d.defaults
              illtyped(i) == /\ ps[i].name \in DOMAIN req.args
                             /\ ~Convertible(ps[i].type, req.args[ps[i].name])
              bad == {i \in 1..Len(ps) : missing(i) \/ illtyped(i)}
              extra == DOMAIN req.args \ {ps[i].name : i \in 1..Len(ps)}
          IN  IF bad # {} \/ extra # {}
              THEN /\ pc = "done"
                   /\ handler = ""
                   /\ fetches = <<>>
                   /\ DOMAIN outcome = {"status", "kind", "detail"}
                   /\ outcome.status = "failure"
                   /\ outcome.kind = "InvalidArguments"
                   /\ IF bad # {}
                      THEN \E i \in bad : /\ outcome.detail = ps[i].name
                                           /\ \A j \in bad : i <= j
                      ELSE outcome.detail \in extra
              ELSE /\ handler = d.handler
                   /\ \A p \in DOMAIN req.args : kw[p] = Coerced(req.args[p])
    /\ ( /\ pc \in {"invoke", "scan", "return", "done"}
          /\ req.name \in FeedHandlers
          /\ DOMAIN req.args = {"query"}
          /\ Convertible("str", req.args.query) )
        => /\ handler = req.name
           /\ kw.max_results = 3

\* C19 witness: multiply was called with a number for a and a text for b;
\* the dispatch failed naming b and no handler ran.
ArgumentValidationWitness ==
    /\ pc = "done"
    /\ req.name = "multiply"
    /\ req.args = [a |-> JsonNumber(1), b |-> JsonString(<<"a">>)]
    /\ handler = ""
    /\ outcome = Invalid("b")

\* A dispatch of the name n has ended whose arguments were numbers under
\* exactly the keys k1 and k2.
Dispatched(n, k1, k2) ==
    /\ pc = "done"
    /\ req.name = n
    /\ DOMAIN req.args = {k1, k2}
    /\ \A k \in {k1, k2} : Convertible("float", req.args[k])

\* The addition tool of a server is exposed as "add" with parameters x, y.
AddIsAddXY ==
    /\ Dispatched("add", "x", "y") =>
          outcome = Success(Num(req.args.x.number + req.args.y.number))
    /\ Dispatched("add", "a", "b") =>
          /\ outcome.status = "failure"
          /\ outcome.kind = "InvalidArguments"
          /\ handler = ""
    /\ (pc = "invoke" /\ req.name \in {"multiply", "subtract", "divide"}) =>
          DOMAIN kw = {"a", "b"}

\* C20 as stated. In every calculator server (01, 02 and 03) the addition
\* tool is exposed under the name "add" and takes x and y: a dispatch of
\* "add" with {x, y} succeeds with x + y and one with {a, b} is rejected as
\* invalid arguments, while multiply, subtract and divide take a and b.
AddToolEveryServer ==
    server \in {"01", "02", "03"} => AddIsAddXY

\* C20. In the FastMCP calculators 01 and 03 the addition tool is exposed as
\* "add" with parameters x and y (succeeds with x + y; {a, b} is rejected as
\* invalid arguments; multiply, subtract, divide take a and b).  In the
\* FastAPI calculator 02 it is exposed as add_numbers with parameters a and
\* b, like the other three tools: add_numbers with {a, b} succeeds with
\* {"result": a + b}, with {x, y} it is rejected, and "add" is unknown.
AddTool ==
    /\ server \in {"01", "03"} => AddIsAddXY
    /\ server = "02" =>
          /\ Dispatched("add_numbers", "a", "b") =>
                outcome = Success([result |-> Num(req.args.a.number + req.args.b.number)])
          /\ Dispatched("add_numbers", "x", "y") =>
                /\ outcome.status = "failure"
                /\ outcome.kind = "InvalidArguments"
                /\ handler = ""
          /\ (pc = "done" /\ req.name = "add") =>
                outcome = Failure("UnknownTool")
          /\ pc = "invoke" => DOMAIN kw = {"a", "b"}

\* C20 witness: on server 03 "add" was dispatched with x = 1 and y = 1 and
\* succeeded with 2 through the handler add_numbers.
AddToolWitness ==
    /\ server = "03"
    /\ Dispatched("add", "x", "y")
    /\ req.args.x.number = 1
    /\ req.args.y.number = 1
    /\ handler = "add_numbers_v2"
    /\ outcome = Success(Num(2))

\* The outcome of dispatching the arithmetic request (n, args) against the
\* registry reg, as one function of the request.
DispatchArith(reg, n, args) ==
    IF ~Registered(reg, n)
    THEN Failure("UnknownTool")
    ELSE LET d == Lookup(reg, n)
         IN  IF ~ValidArgs(d, args)
             THEN Invalid(FirstOffending(d, args))
             ELSE Normalize(CallArith(d.handler, Bind(d, args)))

\* The tools a server exposes, as seen by a client: name, ordered typed
\* parameters, required names and defaults.
Schemas(s) ==
    { [name |-> d.name, params |-> Params(d.handler),
       required |-> d.required, defaults |-> d.defaults] : d \in Registry(s) }

OtherTransport(s) == IF s = "01" THEN "03" ELSE "01"

\* Same Success value or same Failure kind.
SameOutcome(o1, o2) ==
    /\ o1.status = o2.status
    /\ o1.status = "success" => o1.value = o2.value
    /\ o1.status = "failure" => o1.kind = o2.kind

\* C21. Transport independence: the stdio calculator (01) and the HTTP
\* calculator (03) register the same tool names with the same parameter
\* schemas, and every request that ended on one of them ended with the
\* outcome the other one gives to the same name and arguments (same Success
\* value or same Failure kind).
TransportIndependence ==
    /\ ToolNames("01") = ToolNames("03")
    /\ Schemas("01") = Schemas("03")
    /\ (server \in {"01", "03"} /\ pc = "done") =>
          SameOutcome(outcome,
                      DispatchArith(Registry(OtherTransport(server)), req.name, req.args))

\* C21 witness: on the HTTP calculator divide(1, 0) ended as a DomainError
\* through the handler of 03, the outcome the stdio calculator gives too.
TransportIndependenceWitness ==
    /\ server = "03"
    /\ pc = "done"
    /\ req.name = "divide"
    /\ handler = "divide_v2"
    /\ kw.a = 1
    /\ kw.b = 0
    /\ outcome = Failure("DomainError")
    /\ DispatchArith(Registry01, req.name, req.args) = Failure("DomainError")

\* C22. In the FastAPI calculator (02) the /divide endpoint never raises:
\* for every a and b the handler returns, with b = 0 a reply holding only
\* the key "error" with the message "Division by zero is not allowed." and
\* no "result", and with b # 0 a reply holding only the key "result" with
\* a / b.
DivideEndpointTotal ==
    /\ (pc = "invoke" /\ handler = "divide_numbers") =>
          CallArith(handler, kw).tag = "return"
    /\ (pc = "done" /\ handler = "divide_numbers") =>
          /\ server = "02"
          /\ outcome.status = "success"
          /\ IF kw.b = 0
             THEN outcome.value = [error |-> "Division by zero is not allowed."]
             ELSE /\ DOMAIN outcome.value = {"result"}
                  /\ IsQuotient(outcome.value.result, kw.a, kw.b)

\* C22 witness: /divide ended with a = 1 and b = 0 as a normal reply that
\* holds the error message and no result.
DivideEndpointWitness ==
    /\ server = "02"
    /\ pc = "done"
    /\ req.name = "divide_numbers"
    /\ handler = "divide_numbers"
    /\ kw.a = 1
    /\ kw.b = 0
    /\ outcome.status = "success"
    /\ DOMAIN outcome.value = {"error"}

\* The {title, url} results of a returned list, without the sentinel.
RealResults(l) == SelectSeq(l, LAMBDA x : ~IsSentinel(x))

\* C23. Each returned result is a pair {title, url} whose title is the
\* original title of the matching entry, letter case unchanged, and whose
\* url is the link of that same entry: the i-th result is made of the i-th
\* appended entry, that entry matches the query, and the title and the url
\* of a result never belong to two different entries of the feed.
ResultPairs ==
    Returned =>
        LET real == RealResults(outcome.value)
        IN  /\ Len(real) = Len(picked)
            /\ \A i \in 1..Len(real) :
                  LET e == entries[picked[i]]
                  IN  /\ DOMAIN real[i] = {"title", "url"}
                      /\ real[i].title = e.title
                      /\ real[i].url = e.link
                      /\ EntryContains(handler, e, kw.query)
                      /\ \A j \in 1..Len(entries) :
                            (entries[j].title = real[i].title) <=>
                                (entries[j].link = real[i].url)

\* C23 witness: the lower-case query "a" returned two results from two
\* entries, the first with the mixed-case title "Ab" and its own link.
ResultPairsWitness ==
    /\ Returned
    /\ kw.query = <<"a">>
    /\ Len(outcome.value) = 2
    /\ outcome.value[1] = [title |-> <<"A", "b">>, url |-> <<"a">>]
    /\ outcome.value[2] = [title |-> <<"B", "a">>, url |-> <<"b", "b">>]
    /\ entries[picked[1]] = EntryAb
    /\ entries[picked[2]] = EntryNoDesc

\* Lookup and argument validation succeed for the request being served.
Accepted ==
    IF Registered(registry, req.name)
    THEN ValidArgs(Lookup(registry, req.name), req.args)
    ELSE FALSE

\* C24. The dispatcher does not retry: a dispatch enters the handler exactly
\* once when lookup and argument validation succeed and never otherwise,
\* also when the handler fails (divide by zero, feed fetch failure); a
\* rejected dispatch has run no handler code, and no dispatch changes the
\* registry.
NoRetry ==
    /\ invoked \in {0, 1}
    /\ pc \in {"idle", "received", "invoke"} => invoked = 0
    /\ pc \in {"scan", "return"} => invoked = 1
    /\ pc = "done" =>
          /\ invoked = IF Accepted THEN 1 ELSE 0
          /\ ~Accepted =>
                /\ handler = ""
                /\ fetch = "none"
                /\ fetches = <<>>
                /\ results = <<>>
          /\ (outcome.status = "failure"
                 /\ outcome.kind \in {"DomainError", "FeedUnavailable"}) =>
                invoked = 1
          /\ handler \in FeedHandlers => Len(fetches) = 1
    /\ registry = Registry(server)

\* C24 witness: on the HTTP calculator divide(1, 0) was accepted, its
\* handler failed, and the dispatch ended having entered it once.
NoRetryWitness ==
    /\ server = "03"
    /\ pc = "done"
    /\ Accepted
    /\ handler = "divide_v2"
    /\ kw.b = 0
    /\ outcome.status = "failure"
    /\ outcome.kind = "DomainError"
    /\ invoked = 1

\* The sentinel element of a search tool.
SentinelOf(tool) ==
    IF tool = "fcc_news_search" THEN NewsSentinel ELSE VideoSentinel

\* C25. Sentinel exclusivity: for every feed, query and max_results the
\* returned list is either made only of {title, url} results or is exactly
\* the one sentinel element of the tool, never a mix; and for
\* max_results >= 1, whenever at least one entry of the feed matches the
\* query, the list holds at least one real result and no sentinel.
SentinelExclusive ==
    Returned =>
        LET l == outcome.value
            some_match == \E i \in 1..Len(entries) :
                             EntryContains(handler, entries[i], kw.query)
        IN  /\ \/ \A i \in 1..Len(l) : DOMAIN l[i] = {"title", "url"}
               \/ l = <<SentinelOf(handler)>>
            /\ (kw.max_results >= 1 /\ some_match) =>
                  /\ Len(l) >= 1
                  /\ \A i \in 1..Len(l) : ~IsSentinel(l[i])

\* C25 witness: a video search over a feed of three entries, the first of
\* which does not match, returned real results only.
SentinelExclusiveWitness ==
    /\ Returned
    /\ handler = "fcc_youtube_search"
    /\ kw.max_results >= 1
    /\ Len(entries) = 3
    /\ ~EntryContains(handler, entries[1], kw.query)
    /\ Len(outcome.value) >= 1
    /\ \A i \in 1..Len(outcome.value) : DOMAIN outcome.value[i] = {"title", "url"}

====
